---- MODULE Spec2Model ----
(***************************************************************************)
(* Model of the in-process background task worker of control_equipos_api   *)
(* (src/app/worker.py): the task registry, the asyncio task queue, the     *)
(* pool of worker_process loops and start_worker / shutdown_worker.        *)
(*                                                                         *)
(* Everything runs on one asyncio event loop, so the code between two      *)
(* suspension points (await on an empty queue, await of a handler, await   *)
(* of join / gather) is one atomic action here, and the actions interleave *)
(* in any order the event loop may choose.                                 *)
(***************************************************************************)
EXTENDS Integers, Sequences, FiniteSets, TLC

\* ---------------------------------------------------------------- bounds
MaxWorkers == 2     \* largest num_workers passed to start_worker
MaxEnqueue == 2     \* number of invocations producers get accepted
MaxClients == 2     \* login requests that can be in flight together
MaxIntentos == 6    \* failed logins counted per user before the model stops
MaxMovs == 2        \* movements created for the equipment

\* ------------------------------------------------------------ input sets
\* Task names used by producers; "ghost" is never registered.
MaintNames == {"check_upcoming_maintenances", "check_expired_maintenances"}
Names == {"double", "noop", "ghost"} \cup MaintNames

\* Handlers: "h_double" is a plain function (run on a thread), the others
\* are coroutine functions (awaited in place).
MaintHandlers == {"h_check_upcoming", "h_check_expired"}
Handlers == {"h_double", "h_noop", "h_other"} \cup MaintHandlers
NoHandler == "NoHandler"

\* asyncio.iscoroutinefunction(task_func)
iscoroutinefunction(h) == h # "h_double"

\* The enqueue_task calls producers make: a name with (*args, **kwargs);
\* kwargs is a set of <<key, value>> pairs.
Calls == { [task_name |-> "double", args |-> <<21>>, kwargs |-> {}],
           [task_name |-> "noop",   args |-> << >>,  kwargs |-> {<<"days", 7>>}],
           [task_name |-> "ghost",  args |-> <<7>>,  kwargs |-> {}] }

\* The enqueue_task calls for the maintenance checks
MaintCalls ==
    { [task_name |-> "check_upcoming_maintenances", args |-> << >>,
       kwargs |-> {<<"days_ahead", 7>>}],
      [task_name |-> "check_expired_maintenances", args |-> << >>,
       kwargs |-> {}] }

\* What the maintenance queries would find: the mantenimientos that are due
\* and the users holding each notified role.
DueMaintenances == {"m1"}
RoleUsers == [r \in {"tecnico", "supervisor"} |->
                 IF r = "tecnico" THEN {"u1"} ELSE {"u2"}]

\* The notifications a maintenance check has to send: one per due
\* mantenimiento, role and user of the role.
NotificationsDue ==
    { <<m, r, u>> \in DueMaintenances \X (DOMAIN RoleUsers) \X {"u1", "u2"} :
          u \in RoleUsers[r] }

\* The register_task calls made after the initial imports: a second
\* handler for an existing name.
Registrations == { <<"noop", "h_other">> }

\* num_workers the web host passes to start_worker (main.py:60)
LifespanWorkers == 3

\* Failed attempts at which login sets bloqueado (auth.py:62)
LockThreshold == 5

\* Slots for worker handles: enough for the largest pool any caller starts.
Workers == 1..(IF MaxWorkers > LifespanWorkers THEN MaxWorkers
               ELSE LifespanWorkers)
Ids == 1..MaxEnqueue

\* Values of ENABLE_WORKERS in the host's environment ("unset": the variable
\* is absent) and of NUM_WORKERS.
EnableValues == {"unset", "True", "false"}
NumValues == 1..MaxWorkers

\* Exceptions a handler may raise
HandlerErrors == {"RuntimeError", "KeyError"}

\* Login clients, the user names and passwords they send.  "ana" has a
\* row in usuarios with a bcrypt hash of "pw", "leo" a row whose stored
\* value for "pw" is not a bcrypt hash; "zed" has no row.
Clients == 1..MaxClients
Usernames == {"ana", "leo", "zed"}
Passwords == {"pw", "bad"}
\* Movement requests: the clients, the kinds and states of a movement, and
\* the operations on an existing movement with the value each one carries
\* (PUT: the new estado; autorizar: the decision).  Requests carry no
\* fecha_prevista_retorno.
MovClients == {"c1", "c2"}
MovTipos == {"salida", "entrada"}
MovEstados == {"pendiente", "en_proceso", "completado", "cancelado"}
MovTerminal == {"completado", "cancelado"}
MovOps == { <<"update", e>> : e \in MovEstados }
            \cup { <<"autorizar", "si">>, <<"autorizar", "no">>,
                   <<"retorno", "">>, <<"cancelar", "">> }
BcryptPrefixes == {"$2a$", "$2b$", "$2y$"}
NoTask == [id |-> 0]

VARIABLES
    registered_tasks,  \* worker.py:26  name -> handler (NoHandler: absent)
    task_queue,        \* worker.py:23  asyncio.Queue._queue (FIFO)
    unfinished,        \* asyncio.Queue._unfinished_tasks (put +1, task_done -1)
    numWorkers,        \* len(workers) returned by start_worker; 0 before it
    pc,                \* position of each worker_process loop
    cur,               \* task_data / task_func held by each worker loop
    cancelReq,         \* worker.cancel() was called on the handle
    sd,                \* position of the shutdown_worker call
    \* ---- history variables (observation only) ----
    accepted,          \* invocations accepted by enqueue_task, in order
    enqResult,         \* the last enqueue_task call and its outcome
    status,            \* per invocation: where it is in its life
    starts,            \* per invocation: number of times its handler started
    deqs,              \* per invocation: number of times it was dequeued
    ran,               \* per invocation: handler and arguments it ran with
    snapshot,          \* invocations accepted before shutdown_worker was called
    doneAt,            \* number of invocations accepted when it returned
    lastReg,           \* the last register_task call and what was queued then
    \* ---- the web host (main.py lifespan) ----
    life,              \* position of the lifespan context manager
    env,               \* ENABLE_WORKERS / NUM_WORKERS as read at start-up
    engine,            \* the database engine: "up" or "disposed"
    \* ---- a direct caller of execute_task ----
    ex,                \* the call: position, arguments, handler, result
    \* ---- POST /auth/login (api/routes/auth.py) ----
    usuarios,          \* the usuarios table: nombre_usuario -> row
    reqs,              \* the login requests in flight, one per client
    \* ---- the maintenance checks (tasks/maintenance.py) ----
    maint,             \* per invocation: notifications attempted, error met
    \* ---- equipment movements (services/movimientos.py) ----
    movs,              \* the movimientos table, in order of creation
    equipo,            \* the equipment row: estado and ubicacion_actual
    mreq               \* the movement requests in flight, one per client

vars == << registered_tasks, task_queue, unfinished, numWorkers, pc, cur,
           cancelReq, sd, accepted, enqResult,
           status, starts, deqs, ran, snapshot, doneAt, lastReg,
           life, env, engine, ex, usuarios, reqs, maint, movs, equipo, mreq >>

queueVars == << task_queue, unfinished >>
workerVars == << numWorkers, pc, cur, cancelReq >>
histVars == << status, starts, deqs, ran, doneAt >>
lifeVars == << life, env, engine >>
\* what the worker module's own steps leave alone
authVars == << usuarios, reqs >>
movVars == << movs, equipo, mreq >>
appVars == << maint, movVars >>
hostVars == << lifeVars, ex, authVars, appVars >>
\* the state of the worker module itself
workerState == << registered_tasks, task_queue, unfinished, numWorkers, pc,
                  cur, cancelReq, sd, accepted, enqResult, status, starts,
                  deqs, ran, snapshot, doneAt, lastReg >>

NoRun == [handler |-> NoHandler]
NoEnv == [enable |-> "unread", num |-> 0]
NoOutcome == [kind |-> "none", value |-> "none"]
NoCall == [pc |-> "idle", call |-> [task_name |-> ""], handler |-> NoHandler,
           invoked |-> 0, did |-> NoOutcome, outcome |-> NoOutcome]
NoUser == [contrasena |-> [prefix |-> "", of |-> ""],
           intentos_fallidos |-> 0, bloqueado |-> FALSE]
NoReq == [pc |-> "idle", username |-> "", password |-> "", found |-> FALSE,
          user |-> NoUser, response |-> [code |-> 0, detail |-> << >>]]
NoMaint == [attempted |-> {}, error |-> ""]
NoMovReq == [pc |-> "idle", op |-> "", id |-> 0, estado |-> "",
             result |-> ""]
NoReg == [name |-> "", handler |-> NoHandler, queued |-> {}]

\* ------------------------------------------------------------------ Init
\* State after the module is imported and the task modules have applied
\* their @register_task decorators: two names registered, empty queue, no
\* worker launched.
Init ==
    /\ registered_tasks = [n \in Names |->
           IF n = "double" THEN "h_double"
           ELSE IF n = "noop" THEN "h_noop"
           ELSE IF n = "check_upcoming_maintenances" THEN "h_check_upcoming"
           ELSE IF n = "check_expired_maintenances" THEN "h_check_expired"
           ELSE NoHandler]
    /\ task_queue = << >>
    /\ unfinished = 0
    /\ numWorkers = 0
    /\ pc = [w \in Workers |-> "none"]
    /\ cur = [w \in Workers |-> NoTask]
    /\ cancelReq = [w \in Workers |-> FALSE]
    /\ sd = "idle"
    /\ accepted = << >>
    /\ enqResult = [task_name |-> "", args |-> << >>, kwargs |-> {},
                    outcome |-> "none"]
    /\ status = [i \in Ids |-> "none"]
    /\ starts = [i \in Ids |-> 0]
    /\ deqs = [i \in Ids |-> 0]
    /\ ran = [i \in Ids |-> NoRun]
    /\ snapshot = {}
    /\ doneAt = 0
    /\ lastReg = NoReg
    /\ life = "boot"
    /\ env = NoEnv
    /\ engine = "up"
    /\ ex = NoCall
    /\ usuarios = [u \in {"ana", "leo"} |->
           [contrasena |-> [prefix |-> IF u = "ana" THEN "$2b$" ELSE "$1$",
                            of |-> "pw"],
            intentos_fallidos |-> 0, bloqueado |-> FALSE]]
    /\ reqs = [c \in Clients |-> NoReq]
    /\ maint = [i \in Ids |-> NoMaint]
    /\ movs = << >>
    /\ equipo = [estado |-> "disponible", ubicacion |-> "Almacén principal"]
    /\ mreq = [c \in MovClients |-> NoMovReq]

\* ---------------------------------------------------------- the registry
\* task_name in registered_tasks
IsRegistered(n) == registered_tasks[n] # NoHandler

\* The ids of the invocations waiting in the queue
QueuedIds == { task_queue[k].id : k \in 1..Len(task_queue) }

\* A registration that keeps the handler a name already has (setdefault).
register_task_keep(n, h) ==
    /\ registered_tasks[n] # h
    /\ registered_tasks' = [registered_tasks EXCEPT ![n] =
                               IF @ = NoHandler THEN h ELSE @]
    /\ lastReg' = [name |-> n, handler |-> h, queued |-> QueuedIds]
    /\ UNCHANGED << hostVars, queueVars, workerVars, sd, accepted, enqResult,
                    histVars, snapshot >>

\* register_task(task_name)(func): registered_tasks[task_name] = func, with
\* no test of what the name held before.  Registering the handler a name
\* already has changes nothing and is left out.
register_task(n, h) ==
    /\ registered_tasks[n] # h
    /\ registered_tasks' = [registered_tasks EXCEPT ![n] = h]
    /\ lastReg' = [name |-> n, handler |-> h, queued |-> QueuedIds]
    /\ UNCHANGED << hostVars, queueVars, workerVars, sd, accepted, enqResult,
                    histVars, snapshot >>

\* The registrations made while the task modules are imported: the host
\* imports them at start-up (main.py:51-55), before it calls start_worker
\* and before any producer runs.
import_task(n, h) ==
    /\ accepted = << >>
    /\ numWorkers = 0
    /\ register_task(n, h)

\* ------------------------------------------------------------- the queue
\* A put that pushes on the head instead of the tail (LIFO).
QueuePut_lifo(q, item) == << item >> \o q

\* asyncio.Queue.put on an unbounded queue: append to the tail
QueuePut(q, item) == Append(q, item)

\* asyncio.Queue.get on a non-empty queue: the head item
QueueHead(q) == Head(q)
QueueRest(q) == Tail(q)

\* enqueue_task without the registry check of line 86.
enqueue_task_nocheck(n, p) ==
    /\ Len(accepted) < MaxEnqueue
    /\ LET id == Len(accepted) + 1
           item == [id |-> id, task_name |-> n, args |-> p.args,
                    kwargs |-> p.kwargs]
       IN /\ task_queue' = Append(task_queue, item)
          /\ unfinished' = unfinished + 1
          /\ accepted' = Append(accepted, item)
          /\ status' = [status EXCEPT ![id] = "queued"]
          /\ enqResult' = [task_name |-> n, args |-> p.args,
                           kwargs |-> p.kwargs, outcome |-> "ok"]
    /\ UNCHANGED << hostVars, lastReg, registered_tasks, workerVars, sd,
                    starts, deqs, ran, snapshot, doneAt >>

\* enqueue_task(task_name, *args, **kwargs).  An unbounded queue never makes
\* put() wait, so the whole call is one step.
enqueue_task(n, p) ==
    /\ IF ~IsRegistered(n)
       THEN \* raise ValueError("Tarea desconocida")
            /\ enqResult' = [task_name |-> n, args |-> p.args,
                             kwargs |-> p.kwargs, outcome |-> "ValueError"]
            /\ UNCHANGED << queueVars, accepted, status >>
       ELSE /\ Len(accepted) < MaxEnqueue
            /\ LET id == Len(accepted) + 1
                   item == [id |-> id, task_name |-> n, args |-> p.args,
                            kwargs |-> p.kwargs]
               IN /\ task_queue' = QueuePut(task_queue, item)
                  /\ unfinished' = unfinished + 1
                  /\ accepted' = Append(accepted, item)
                  /\ status' = [status EXCEPT ![id] = "queued"]
                  /\ enqResult' = [task_name |-> n, args |-> p.args,
                                   kwargs |-> p.kwargs, outcome |-> "ok"]
    /\ UNCHANGED << hostVars, lastReg, registered_tasks, workerVars, sd,
                    starts, deqs, ran, snapshot, doneAt >>

\* ------------------------------------------------------- the worker pool
\* start_worker(num_workers): create num_workers worker_process tasks.
\* A freshly created task first runs up to its first task_queue.get(), so a
\* launched loop is at "get".
Launch(n) ==
    /\ numWorkers' = n
    /\ pc' = [w \in Workers |-> IF w <= n THEN "get" ELSE "none"]

start_worker(n) ==
    /\ numWorkers = 0
    /\ sd = "idle"
    /\ Launch(n)
    /\ UNCHANGED << hostVars, lastReg, registered_tasks, queueVars, cur, cancelReq, sd, accepted,
                    enqResult, histVars,
                    snapshot >>

\* A call that forwards the positional arguments only.
CallArgs_nokwargs(item) == [args |-> item.args, kwargs |-> {}]

\* The arguments worker_process hands to execute_task:
\* execute_task(task_name, *args, **kwargs)
CallArgs(item) == [args |-> item.args, kwargs |-> item.kwargs]

\* worker_process, from task_queue.get() returning up to the first
\* suspension inside execute_task.  execute_task looks the name up; an
\* absent name raises ValueError, which the loop's `except Exception`
\* logs before it goes back to get() (task_done is not reached).
worker_get(w) ==
    /\ pc[w] = "get"
    /\ ~cancelReq[w]
    /\ task_queue # << >>
    /\ LET item == QueueHead(task_queue)
           h == registered_tasks[item.task_name]
       IN /\ task_queue' = QueueRest(task_queue)
          /\ deqs' = [deqs EXCEPT ![item.id] = @ + 1]
          /\ IF h = NoHandler
             THEN /\ status' = [status EXCEPT ![item.id] = "unknown"]
                  /\ UNCHANGED << pc, cur, starts, ran >>
             ELSE /\ pc' = [pc EXCEPT ![w] = "exec"]
                  /\ cur' = [cur EXCEPT ![w] =
                        [id |-> item.id, task_name |-> item.task_name,
                         handler |-> h]]
                  /\ status' = [status EXCEPT ![item.id] = "running"]
                  /\ starts' = [starts EXCEPT ![item.id] = @ + 1]
                  /\ ran' = [ran EXCEPT ![item.id] =
                        [handler |-> h, task_name |-> item.task_name,
                         args |-> CallArgs(item).args,
                         kwargs |-> CallArgs(item).kwargs]]
    /\ UNCHANGED << hostVars, lastReg, registered_tasks, unfinished, numWorkers, cancelReq, sd,
                    accepted, enqResult, snapshot, doneAt >>

\* The handler returned: execute_task returns, the loop calls
\* task_queue.task_done() and goes back to get().  task_done() reaching zero
\* sets the queue's _finished event, which wakes a caller suspended in join().
worker_task_done(w) ==
    /\ pc[w] = "exec"
    /\ ~cancelReq[w]
    /\ unfinished' = unfinished - 1
    /\ sd' = IF sd = "join" /\ unfinished' = 0 THEN "joined" ELSE sd
    /\ pc' = [pc EXCEPT ![w] = "get"]
    /\ cur' = [cur EXCEPT ![w] = NoTask]
    /\ status' = [status EXCEPT ![cur[w].id] = "returned"]
    /\ UNCHANGED << hostVars, lastReg, registered_tasks, task_queue, numWorkers, cancelReq,
                    accepted, enqResult,
                    starts, deqs, ran, snapshot, doneAt >>

\* A loop whose generic handler is missing: the exception ends the loop.
worker_handler_raises_dies(w) ==
    /\ pc[w] = "exec"
    /\ ~cancelReq[w]
    /\ pc' = [pc EXCEPT ![w] = "terminated"]
    /\ cur' = [cur EXCEPT ![w] = NoTask]
    /\ status' = [status EXCEPT ![cur[w].id] = "raised"]
    /\ UNCHANGED << hostVars, lastReg, registered_tasks, queueVars, numWorkers, cancelReq, sd,
                    accepted, enqResult,
                    starts, deqs, ran, snapshot, doneAt >>

\* A loop that puts a failed invocation back on the queue (retry).
worker_handler_raises_retry(w) ==
    /\ pc[w] = "exec"
    /\ ~cancelReq[w]
    /\ pc' = [pc EXCEPT ![w] = "get"]
    /\ cur' = [cur EXCEPT ![w] = NoTask]
    /\ status' = [status EXCEPT ![cur[w].id] = "queued"]
    /\ task_queue' = Append(task_queue, accepted[cur[w].id])
    /\ UNCHANGED << hostVars, lastReg, registered_tasks, unfinished, numWorkers, cancelReq, sd,
                    accepted, enqResult,
                    starts, deqs, ran, snapshot, doneAt >>

\* The handler raised: execute_task logs and re-raises, the loop's
\* `except Exception` logs and the loop goes back to get().  The
\* task_done() call of line 118 is skipped.
worker_handler_raises(w) ==
    /\ pc[w] = "exec"
    /\ ~cancelReq[w]
    /\ pc' = [pc EXCEPT ![w] = "get"]
    /\ cur' = [cur EXCEPT ![w] = NoTask]
    /\ status' = [status EXCEPT ![cur[w].id] = "raised"]
    /\ UNCHANGED << hostVars, lastReg, registered_tasks, queueVars, numWorkers, cancelReq, sd,
                    accepted, enqResult,
                    starts, deqs, ran, snapshot, doneAt >>

\* CancelledError delivered to a loop suspended in task_queue.get():
\* `except asyncio.CancelledError: break`.
worker_cancelled_idle(w) ==
    /\ pc[w] = "get"
    /\ cancelReq[w]
    /\ pc' = [pc EXCEPT ![w] = "terminated"]
    /\ UNCHANGED << hostVars, lastReg, registered_tasks, queueVars, numWorkers, cur, cancelReq,
                    sd, accepted, enqResult,
                    histVars, snapshot >>

\* CancelledError delivered to a loop suspended inside execute_task.
\* A coroutine handler gets the CancelledError thrown in at its current
\* await and is abandoned there.  A plain-function handler keeps running on
\* its thread: leaving `with ThreadPoolExecutor()` waits for it, so it runs
\* to its end (returning or raising) before the CancelledError reaches the
\* loop.  Either way the loop breaks without calling task_done().
worker_cancelled_exec(w, outcome) ==
    /\ pc[w] = "exec"
    /\ cancelReq[w]
    /\ IF iscoroutinefunction(cur[w].handler)
       THEN outcome = "cancelled"
       ELSE outcome \in {"returned", "raised"}
    /\ pc' = [pc EXCEPT ![w] = "terminated"]
    /\ status' = [status EXCEPT ![cur[w].id] = outcome]
    /\ UNCHANGED << hostVars, lastReg, registered_tasks, queueVars, numWorkers, cur, cancelReq,
                    sd, accepted, enqResult,
                    starts, deqs, ran, snapshot, doneAt >>

\* ------------------------------------------- execute_task, called directly
\* What a handler computes from its arguments when it returns
HandlerResult(h, c) ==
    IF h = "h_double" THEN [kind |-> "return", value |-> << 2 * c.args[1] >>]
    ELSE [kind |-> "return", value |-> << >>]

\* A lookup that falls back to a default handler for an unknown name.
execute_task_call_default(c) ==
    /\ ex.pc # "running"
    /\ LET task_func == IF IsRegistered(c.task_name)
                        THEN registered_tasks[c.task_name] ELSE "h_noop"
       IN ex' = [pc |-> "running", call |-> c, handler |-> task_func,
                 invoked |-> 1, did |-> NoOutcome, outcome |-> NoOutcome]
    /\ UNCHANGED << workerState, lifeVars, authVars, appVars >>

\* execute_task(task_name, *args, **kwargs) up to its first suspension:
\* registered_tasks.get(task_name); a missing name raises ValueError before
\* any handler is called; otherwise the handler is started (awaited in
\* place, or on a thread if it is a plain function).  The caller makes its
\* next call when the previous one has ended.
execute_task_call(c) ==
    /\ ex.pc # "running"
    /\ LET task_func == registered_tasks[c.task_name]
       IN IF task_func = NoHandler
          THEN ex' = [pc |-> "raised", call |-> c, handler |-> NoHandler,
                      invoked |-> 0, did |-> NoOutcome,
                      outcome |-> [kind |-> "raise", value |-> "ValueError"]]
          ELSE ex' = [pc |-> "running", call |-> c, handler |-> task_func,
                      invoked |-> 1, did |-> NoOutcome, outcome |-> NoOutcome]
    /\ UNCHANGED << workerState, lifeVars, authVars, appVars >>

\* The handler returned: `return await ...` hands its result to the caller.
execute_task_returns ==
    /\ ex.pc = "running"
    /\ LET r == HandlerResult(ex.handler, ex.call)
       IN ex' = [ex EXCEPT !.pc = "returned", !.did = r, !.outcome = r]
    /\ UNCHANGED << workerState, lifeVars, authVars, appVars >>

\* An execute_task that logs the exception and returns None.
execute_task_raises_swallow(e) ==
    /\ ex.pc = "running"
    /\ ex' = [ex EXCEPT !.pc = "returned",
                        !.did = [kind |-> "raise", value |-> e],
                        !.outcome = [kind |-> "return", value |-> << >>]]
    /\ UNCHANGED << workerState, lifeVars, authVars, appVars >>

\* The handler raised e: `except Exception` logs it and the bare `raise`
\* re-raises the same exception.
execute_task_raises(e) ==
    /\ ex.pc = "running"
    /\ ex' = [ex EXCEPT !.pc = "raised",
                        !.did = [kind |-> "raise", value |-> e],
                        !.outcome = [kind |-> "raise", value |-> e]]
    /\ UNCHANGED << workerState, lifeVars, authVars, appVars >>

\* ------------------------------------------------------- shutdown_worker
\* for worker in workers: worker.cancel()
CancelAll == [w \in Workers |-> w <= numWorkers]

\* asyncio.gather(*workers) resolves when every worker task is done
AllWorkersDone == \A w \in 1..numWorkers : pc[w] = "terminated"

\* A shutdown that cancels at once, without join().
ShutdownBegin_nojoin ==
    /\ snapshot' = 1..Len(accepted)
    /\ cancelReq' = CancelAll
    /\ sd' = "gather"

\* The start of shutdown_worker, up to its first suspension: the empty()
\* test, then either the cancel loop or the wait in join().
ShutdownBegin ==
    /\ snapshot' = 1..Len(accepted)
    /\ IF task_queue = << >>
       THEN /\ cancelReq' = CancelAll
            /\ sd' = "gather"
       ELSE /\ sd' = IF unfinished > 0 THEN "join" ELSE "joined"
            /\ UNCHANGED cancelReq

\* shutdown_worker(workers) is called (the host calls it only with a
\* non-empty list).  If the queue holds no item, join() is skipped and the
\* workers are cancelled in the same step; otherwise the call suspends in
\* task_queue.join().
shutdown_worker_call ==
    /\ sd = "idle"
    /\ numWorkers > 0
    /\ ShutdownBegin
    /\ UNCHANGED << hostVars, lastReg, registered_tasks, queueVars, numWorkers, pc, cur,
                    accepted, enqResult,
                    histVars >>

\* join() has returned: cancel every worker and suspend in gather().
shutdown_worker_cancel ==
    /\ sd = "joined"
    /\ cancelReq' = CancelAll
    /\ sd' = "gather"
    /\ UNCHANGED << hostVars, lastReg, registered_tasks, queueVars, numWorkers, pc, cur,
                    accepted, enqResult,
                    histVars, snapshot >>

\* A shutdown that does not await gather().
shutdown_worker_return_nogather ==
    /\ sd = "gather"
    /\ sd' = "done"
    /\ doneAt' = Len(accepted)
    /\ UNCHANGED << hostVars, lastReg, registered_tasks, queueVars, workerVars, accepted,
                    enqResult, status, starts, deqs, ran,
                    snapshot >>

\* A shutdown that returns right after join(), cancelling nothing.
shutdown_worker_return_early ==
    /\ sd = "joined"
    /\ sd' = "done"
    /\ doneAt' = Len(accepted)
    /\ UNCHANGED << hostVars, lastReg, registered_tasks, queueVars, workerVars, accepted,
                    enqResult, status, starts, deqs, ran,
                    snapshot >>

\* gather() has resolved: shutdown_worker returns.
shutdown_worker_return ==
    /\ sd = "gather"
    /\ AllWorkersDone
    /\ sd' = "done"
    /\ doneAt' = Len(accepted)
    /\ UNCHANGED << hostVars, lastReg, registered_tasks, queueVars, workerVars, accepted,
                    enqResult, status, starts, deqs, ran,
                    snapshot >>

\* --------------------------------- the maintenance checks as worker tasks
\* A worker takes a maintenance check from the queue and runs it.
\* check_upcoming_maintenances and check_expired_maintenances begin with
\* `today = datetime.now(timezone.utc).date()` (maintenance.py:29, 74), and
\* the module imports only datetime and timedelta (maintenance.py:2): the
\* name timezone is undefined, so the handler raises NameError before its
\* first await, before the query and before any send_role_notifications.
\* execute_task logs and re-raises, worker_process logs and goes back to
\* get(); task_done() is skipped.  With no suspension in between this is
\* one step.
maint_worker_step(w) ==
    /\ pc[w] = "get"
    /\ ~cancelReq[w]
    /\ task_queue # << >>
    /\ LET item == QueueHead(task_queue)
           h == registered_tasks[item.task_name]
       IN /\ h \in MaintHandlers
          /\ task_queue' = QueueRest(task_queue)
          /\ deqs' = [deqs EXCEPT ![item.id] = @ + 1]
          /\ starts' = [starts EXCEPT ![item.id] = @ + 1]
          /\ ran' = [ran EXCEPT ![item.id] =
                [handler |-> h, task_name |-> item.task_name,
                 args |-> CallArgs(item).args,
                 kwargs |-> CallArgs(item).kwargs]]
          /\ status' = [status EXCEPT ![item.id] = "raised"]
          /\ maint' = [maint EXCEPT ![item.id] =
                [attempted |-> {}, error |-> "NameError"]]
    /\ UNCHANGED << lifeVars, ex, authVars, movVars, lastReg,
                    registered_tasks, unfinished, workerVars, sd, accepted,
                    enqResult, snapshot, doneAt >>

\* ---------------------------------- the event loop and the handler thread
\* A plain-function handler runs on a thread of the ThreadPoolExecutor that
\* execute_task creates in a `with` block.  While the worker coroutine
\* awaits run_in_executor the event loop is free.  When CancelledError is
\* thrown in at that await, leaving the `with` block calls
\* executor.shutdown(wait=True) on the event loop's own thread: the loop
\* runs nothing else until the handler has come to its end.  A worker in
\* that wait is at "exiting".
LoopBlocked == \E w \in Workers : pc[w] = "exiting"

\* The steps of the worker module as the event loop runs them: one at a
\* time, and none while the loop's thread is held.
loop_enqueue(c) == ~LoopBlocked /\ enqueue_task(c.task_name, c)
loop_start_worker(n) == ~LoopBlocked /\ start_worker(n)
loop_get(w) == ~LoopBlocked /\ worker_get(w)
loop_task_done(w) == ~LoopBlocked /\ worker_task_done(w)
loop_handler_raises(w) == ~LoopBlocked /\ worker_handler_raises(w)
loop_cancelled_idle(w) == ~LoopBlocked /\ worker_cancelled_idle(w)
loop_shutdown_call == ~LoopBlocked /\ shutdown_worker_call
loop_shutdown_cancel == ~LoopBlocked /\ shutdown_worker_cancel
loop_shutdown_return == ~LoopBlocked /\ shutdown_worker_return

\* CancelledError reaches a worker that awaits a coroutine handler.
loop_cancelled_await(w) ==
    /\ ~LoopBlocked
    /\ pc[w] = "exec"
    /\ iscoroutinefunction(cur[w].handler)
    /\ worker_cancelled_exec(w, "cancelled")

\* CancelledError reaches a worker that awaits a thread handler: the `with`
\* exit starts waiting for the thread.
loop_cancelled_thread(w) ==
    /\ ~LoopBlocked
    /\ pc[w] = "exec"
    /\ cancelReq[w]
    /\ ~iscoroutinefunction(cur[w].handler)
    /\ pc' = [pc EXCEPT ![w] = "exiting"]
    /\ UNCHANGED << hostVars, lastReg, registered_tasks, queueVars,
                    numWorkers, cur, cancelReq, sd, accepted, enqResult,
                    histVars, snapshot >>

\* The handler on the thread ends (returning or raising): shutdown(wait=True)
\* returns, the CancelledError goes on to worker_process, which breaks.
thread_handler_ends(w, outcome) ==
    /\ pc[w] = "exiting"
    /\ outcome \in {"returned", "raised"}
    /\ pc' = [pc EXCEPT ![w] = "terminated"]
    /\ status' = [status EXCEPT ![cur[w].id] = outcome]
    /\ UNCHANGED << hostVars, lastReg, registered_tasks, queueVars,
                    numWorkers, cur, cancelReq, sd, accepted, enqResult,
                    starts, deqs, ran, snapshot, doneAt >>

\* ------------------------------------------ the web host (main.py lifespan)
\* str.lower() on the flag values
Lower(str) ==
    CASE str = "True" -> "true"
      [] str = "TRUE" -> "true"
      [] str = "False" -> "false"
      [] str = "FALSE" -> "false"
      [] OTHER -> str

\* os.environ.get(name, default)
Getenv(value, default) == IF value = "unset" THEN default ELSE value

\* os.environ.get("ENABLE_WORKERS", "true").lower() == "true"
WorkersEnabled(e) == Lower(Getenv(e, "true")) = "true"

\* `SELECT 1` on a fresh connection; a failure is logged and re-raised, which
\* ends the lifespan before the application starts.
lifespan_db_check(ok) ==
    /\ life = "boot"
    /\ life' = (IF ok THEN "db_ok" ELSE "failed")
    /\ UNCHANGED << workerState, env, engine, ex, authVars, appVars >>

\* Lines 57-61: with the flag on, start_worker(num_workers=3).  e and n are
\* the values ENABLE_WORKERS and NUM_WORKERS have in the environment.
lifespan_start_workers(e, n) ==
    /\ life = "db_ok"
    /\ env' = [enable |-> e, num |-> n]
    /\ IF WorkersEnabled(e)
       THEN Launch(LifespanWorkers)
       ELSE UNCHANGED << numWorkers, pc >>
    /\ life' = "started"
    /\ UNCHANGED << registered_tasks, queueVars, cur, cancelReq, sd, accepted,
                    enqResult, histVars, snapshot, lastReg, engine, ex,
                    authVars, appVars >>

\* `yield`: the application starts serving requests.
lifespan_yield ==
    /\ life = "started"
    /\ life' = "serving"
    /\ UNCHANGED << workerState, env, engine, ex, authVars, appVars >>

\* A request handler of the serving application enqueues a task.
request_enqueue(c) ==
    /\ life = "serving"
    /\ enqueue_task(c.task_name, c)

\* The server stops: control returns after `yield`.  `if workers:` calls
\* shutdown_worker, which runs up to its first suspension.
lifespan_stop ==
    /\ life = "serving"
    /\ life' = "stopping"
    /\ IF numWorkers > 0
       THEN ShutdownBegin
       ELSE UNCHANGED << snapshot, cancelReq, sd >>
    /\ UNCHANGED << registered_tasks, queueVars, numWorkers, pc, cur,
                    accepted, enqResult, histVars, lastReg, env, engine, ex,
                    authVars, appVars >>

\* A lifespan that disposes the engine without awaiting shutdown_worker.
lifespan_dispose_early ==
    /\ life = "stopping"
    /\ engine' = "disposed"
    /\ life' = "stopped"
    /\ UNCHANGED << workerState, env, ex, authVars, appVars >>

\* await engine.dispose(), reached when shutdown_worker has returned (or was
\* not called because no worker was started).
lifespan_dispose ==
    /\ life = "stopping"
    /\ numWorkers > 0 => sd = "done"
    /\ engine' = "disposed"
    /\ life' = "stopped"
    /\ UNCHANGED << workerState, env, ex, authVars, appVars >>

\* ------------------------------------------ POST /auth/login (auth.py)
\* verify_password(plain_password, hashed_password): a stored value that is
\* not a bcrypt hash never verifies.
verify_password(plain, hashed) ==
    /\ hashed.prefix \in BcryptPrefixes
    /\ hashed.of = plain

\* The HTTP responses of login; detail is split into its sentences.
Unauthorized == [code |-> 401, detail |-> << "Credenciales incorrectas" >>]
Forbidden == [code |-> 403,
              detail |-> << "Usuario bloqueado", "Contacte al administrador" >>]
TokenIssued == [code |-> 200, detail |-> << "bearer" >>]
NoResponse == [code |-> 0, detail |-> << >>]

\* get_user_by_username: client c posts (u, p); the row is read into a dict.
\* An unknown user is answered 401 at once.  A request that would count
\* one more failure is taken only while the counter is below MaxIntentos.
login_read(c, u, p) ==
    /\ reqs[c].pc = "idle"
    /\ IF u \in DOMAIN usuarios
       THEN /\ (~verify_password(p, usuarios[u].contrasena)) =>
                  usuarios[u].intentos_fallidos < MaxIntentos
            /\ reqs' = [reqs EXCEPT ![c] =
                  [pc |-> "read", username |-> u, password |-> p,
                   found |-> TRUE, user |-> usuarios[u],
                   response |-> NoResponse]]
       ELSE reqs' = [reqs EXCEPT ![c] =
                  [pc |-> "done", username |-> u, password |-> p,
                   found |-> FALSE, user |-> NoUser,
                   response |-> Unauthorized]]
    /\ UNCHANGED << workerState, lifeVars, ex, usuarios, appVars >>

\* A login that does not look at bloqueado.
login_decide_noblock(c) ==
    /\ reqs[c].pc = "read"
    /\ LET r == reqs[c]
           user == r.user
       IN IF ~verify_password(r.password, user.contrasena)
          THEN LET n == user.intentos_fallidos + 1
               IN /\ usuarios' = [usuarios EXCEPT ![r.username] =
                        [@ EXCEPT !.intentos_fallidos = n,
                                  !.bloqueado = IF n >= LockThreshold
                                                THEN TRUE ELSE user.bloqueado]]
                  /\ reqs' = [reqs EXCEPT ![c].pc = "done",
                                          ![c].response = Unauthorized]
          ELSE /\ usuarios' = [usuarios EXCEPT
                                 ![r.username].intentos_fallidos = 0]
               /\ reqs' = [reqs EXCEPT ![c].pc = "done",
                                       ![c].response = TokenIssued]
    /\ UNCHANGED << workerState, lifeVars, ex, appVars >>

\* The rest of login, working on the dict read before.  Wrong password:
\* count the failure, set bloqueado at the threshold, write both fields
\* back with update_user, answer 401.  Blocked user: 403.  Otherwise reset
\* the counter with update_user and issue the token.
login_decide(c) ==
    /\ reqs[c].pc = "read"
    /\ LET r == reqs[c]
           user == r.user
       IN IF ~verify_password(r.password, user.contrasena)
          THEN LET n == user.intentos_fallidos + 1
               IN /\ usuarios' = [usuarios EXCEPT ![r.username] =
                        [@ EXCEPT !.intentos_fallidos = n,
                                  !.bloqueado = IF n >= LockThreshold
                                                THEN TRUE ELSE user.bloqueado]]
                  /\ reqs' = [reqs EXCEPT ![c].pc = "done",
                                          ![c].response = Unauthorized]
          ELSE IF user.bloqueado
          THEN /\ reqs' = [reqs EXCEPT ![c].pc = "done",
                                       ![c].response = Forbidden]
               /\ UNCHANGED usuarios
          ELSE /\ usuarios' = [usuarios EXCEPT
                                 ![r.username].intentos_fallidos = 0]
               /\ reqs' = [reqs EXCEPT ![c].pc = "done",
                                       ![c].response = TokenIssued]
    /\ UNCHANGED << workerState, lifeVars, ex, appVars >>

\* The response has been sent; the client may post again.
login_respond(c) ==
    /\ reqs[c].pc = "done"
    /\ reqs' = [reqs EXCEPT ![c] = NoReq]
    /\ UNCHANGED << workerState, lifeVars, ex, usuarios, appVars >>

\* A login posted when no other login is in progress.
login_read_alone(c, u, p) ==
    /\ \A d \in Clients : reqs[d].pc = "idle"
    /\ login_read(c, u, p)

\* --------------------------------- equipment movements (movimientos.py)
\* EstadoEquipo.permite_movimientos: true for "disponible", false for
\* "prestado".
PermiteMovimientos(estado) == estado = "disponible"

\* create_movimiento for the equipment, of type t; ra is what
\* requiere_autorizacion says for the equipment's estado.  The movement
\* starts "pendiente", or "en_proceso" when no authorization is required;
\* a salida that is en_proceso puts the equipment in "prestado" at its
\* destino.  An equipment that does not allow movements is refused with
\* BadRequestError and nothing changes.
create_movimiento(t, ra) ==
    /\ Len(movs) < MaxMovs
    /\ PermiteMovimientos(equipo.estado)
    /\ LET estado == IF ra THEN "pendiente" ELSE "en_proceso"
       IN /\ movs' = Append(movs, [tipo |-> t, estado |-> estado])
          /\ equipo' = IF t = "salida" /\ estado = "en_proceso"
                       THEN [estado |-> "prestado", ubicacion |-> "destino"]
                       ELSE equipo
    /\ UNCHANGED << workerState, lifeVars, ex, authVars, maint, mreq >>

\* What each route tests on the dict get_movimiento returned before it calls
\* the service (routes/movimientos.py:142, 175, 213-217, 251).
RouteAllows(op, m) ==
    CASE op = "update" -> m.estado \notin MovTerminal
      [] op = "autorizar" -> m.estado = "pendiente"
      [] op = "retorno" -> m.tipo = "salida" /\ m.estado = "en_proceso"
      [] op = "cancelar" -> m.estado \notin MovTerminal

\* The first half of a route on movement id: get_movimiento and the test.
\* A request the test refuses ends with BadRequestError, changing nothing.
route_check(c, o, id) ==
    /\ mreq[c].pc = "idle"
    /\ id \in 1..Len(movs)
    /\ RouteAllows(o[1], movs[id])
    /\ mreq' = [mreq EXCEPT ![c] =
          [pc |-> "checked", op |-> o[1], id |-> id, estado |-> o[2],
           result |-> ""]]
    /\ UNCHANGED << workerState, lifeVars, ex, authVars, maint, movs, equipo >>

\* update_movimiento: the row is selected by id alone and every field of
\* the body is set on it.
update_movimiento(c) ==
    /\ mreq[c].pc = "checked"
    /\ mreq[c].op = "update"
    /\ movs' = [movs EXCEPT ![mreq[c].id].estado = mreq[c].estado]
    /\ mreq' = [mreq EXCEPT ![c] = NoMovReq]
    /\ UNCHANGED << workerState, lifeVars, ex, authVars, maint, equipo >>

\* autorizar_movimiento: selects the movement only if it is "pendiente"
\* (else returns None); authorizing makes it "en_proceso" and, for a
\* salida, puts the equipment in "prestado" at the destino; rejecting makes
\* it "cancelado".
autorizar_movimiento(c) ==
    /\ mreq[c].pc = "checked"
    /\ mreq[c].op = "autorizar"
    /\ LET id == mreq[c].id
           m == movs[id]
       IN IF m.estado # "pendiente"
          THEN UNCHANGED << movs, equipo >>
          ELSE IF mreq[c].estado = "si"
          THEN /\ movs' = [movs EXCEPT ![id].estado = "en_proceso"]
               /\ equipo' = IF m.tipo = "salida"
                            THEN [estado |-> "prestado",
                                  ubicacion |-> "destino"]
                            ELSE equipo
          ELSE /\ movs' = [movs EXCEPT ![id].estado = "cancelado"]
               /\ UNCHANGED equipo
    /\ mreq' = [mreq EXCEPT ![c] = NoMovReq]
    /\ UNCHANGED << workerState, lifeVars, ex, authVars, maint >>

\* registrar_retorno: selects the movement only if it is a salida that is
\* "en_proceso" (else returns None).  Its first assignment is
\* `movimiento.fecha_retorno = datetime.now(timezone.utc)` (line 365) and
\* the module imports only `datetime` (line 1): NameError is raised before
\* estado is touched and nothing is committed.
registrar_retorno(c) ==
    /\ mreq[c].pc = "checked"
    /\ mreq[c].op = "retorno"
    /\ mreq' = [mreq EXCEPT ![c] = NoMovReq]
    /\ UNCHANGED << workerState, lifeVars, ex, authVars, maint, movs, equipo >>

\* cancelar_movimiento: selects the movement only if it is "pendiente" or
\* "en_proceso" (else returns None) and sets estado = "cancelado" (line
\* 415).  The test for returning the equipment (line 419) reads estado
\* after that assignment.
cancelar_movimiento(c) ==
    /\ mreq[c].pc = "checked"
    /\ mreq[c].op = "cancelar"
    /\ LET id == mreq[c].id
           m == movs[id]
       IN IF m.estado \notin {"pendiente", "en_proceso"}
          THEN UNCHANGED << movs, equipo >>
          ELSE LET cancelled == [m EXCEPT !.estado = "cancelado"]
               IN /\ movs' = [movs EXCEPT ![id] = cancelled]
                  /\ equipo' = IF cancelled.estado = "en_proceso"
                                  /\ cancelled.tipo = "salida"
                               THEN [estado |-> "disponible",
                                     ubicacion |-> "Almacén principal"]
                               ELSE equipo
    /\ mreq' = [mreq EXCEPT ![c] = NoMovReq]
    /\ UNCHANGED << workerState, lifeVars, ex, authVars, maint >>

\* A request on a movement made when no other movement request is in
\* progress, through a route other than PUT.
route_check_alone(c, o, id) ==
    /\ \A d \in MovClients : mreq[d].pc = "idle"
    /\ o[1] # "update"
    /\ route_check(c, o, id)

\* ------------------------------------------------------------------ Next
Next ==
    \/ \E r \in Registrations : import_task(r[1], r[2])
    \/ \E c \in Calls : enqueue_task(c.task_name, c)
    \/ \E n \in 1..MaxWorkers : start_worker(n)
    \/ \E w \in Workers : worker_get(w)
    \/ \E w \in Workers : worker_task_done(w)
    \/ \E w \in Workers : worker_handler_raises(w)
    \/ \E w \in Workers : worker_cancelled_idle(w)
    \/ \E w \in Workers, o \in {"cancelled", "returned", "raised"} :
           worker_cancelled_exec(w, o)
    \/ shutdown_worker_call
    \/ shutdown_worker_cancel
    \/ shutdown_worker_return

Spec == Init /\ [][Next]_vars

\* The worker module with register_task callable at any time, as the
\* decorator is: also while invocations wait and while loops run.
RegNext ==
    \/ \E r \in Registrations : register_task(r[1], r[2])
    \/ \E c \in Calls : enqueue_task(c.task_name, c)
    \/ \E n \in 1..MaxWorkers : start_worker(n)
    \/ \E w \in Workers : worker_get(w)
    \/ \E w \in Workers : worker_task_done(w)
    \/ \E w \in Workers : worker_handler_raises(w)
    \/ \E w \in Workers : worker_cancelled_idle(w)
    \/ \E w \in Workers, o \in {"cancelled", "returned", "raised"} :
           worker_cancelled_exec(w, o)
    \/ shutdown_worker_call
    \/ shutdown_worker_cancel
    \/ shutdown_worker_return

RegSpec == Init /\ [][RegNext]_vars

\* The worker pool as the web host runs it: started and stopped by the
\* lifespan, fed by the requests the application serves in between.
LifeNext ==
    \/ \E ok \in BOOLEAN : lifespan_db_check(ok)
    \/ \E e \in EnableValues, n \in NumValues : lifespan_start_workers(e, n)
    \/ lifespan_yield
    \/ \E c \in Calls : request_enqueue(c)
    \/ \E w \in Workers : worker_get(w)
    \/ \E w \in Workers : worker_task_done(w)
    \/ \E w \in Workers : worker_handler_raises(w)
    \/ \E w \in Workers : worker_cancelled_idle(w)
    \/ \E w \in Workers, o \in {"cancelled", "returned", "raised"} :
           worker_cancelled_exec(w, o)
    \/ lifespan_stop
    \/ shutdown_worker_cancel
    \/ shutdown_worker_return
    \/ lifespan_dispose

LifeSpec == Init /\ [][LifeNext]_vars

\* The worker module with the handler thread's wait made visible.
ThreadNext ==
    \/ \E c \in Calls : loop_enqueue(c)
    \/ \E n \in 1..MaxWorkers : loop_start_worker(n)
    \/ \E w \in Workers : loop_get(w)
    \/ \E w \in Workers : loop_task_done(w)
    \/ \E w \in Workers : loop_handler_raises(w)
    \/ \E w \in Workers : loop_cancelled_idle(w)
    \/ \E w \in Workers : loop_cancelled_await(w)
    \/ \E w \in Workers : loop_cancelled_thread(w)
    \/ \E w \in Workers, o \in {"returned", "raised"} :
           thread_handler_ends(w, o)
    \/ loop_shutdown_call
    \/ loop_shutdown_cancel
    \/ loop_shutdown_return

ThreadSpec == Init /\ [][ThreadNext]_vars

\* The worker pool fed with maintenance checks.  join() can only be left
\* through task_done(), which these invocations never reach.
MaintNext ==
    \/ \E c \in MaintCalls : enqueue_task(c.task_name, c)
    \/ \E n \in 1..MaxWorkers : start_worker(n)
    \/ \E w \in Workers : maint_worker_step(w)
    \/ \E w \in Workers : worker_cancelled_idle(w)
    \/ shutdown_worker_call
    \/ shutdown_worker_return

MaintSpec == Init /\ [][MaintNext]_vars

\* Movement requests of concurrent clients, through every route.
MovNext ==
    \/ \E t \in MovTipos, ra \in BOOLEAN : create_movimiento(t, ra)
    \/ \E c \in MovClients, o \in MovOps, id \in 1..MaxMovs :
           route_check(c, o, id)
    \/ \E c \in MovClients : update_movimiento(c)
    \/ \E c \in MovClients : autorizar_movimiento(c)
    \/ \E c \in MovClients : registrar_retorno(c)
    \/ \E c \in MovClients : cancelar_movimiento(c)

MovSpec == Init /\ [][MovNext]_vars

\* create, autorizar, retorno and cancelar served one after the other.
MovSeqNext ==
    \/ \E t \in MovTipos, ra \in BOOLEAN : create_movimiento(t, ra)
    \/ \E c \in MovClients, o \in MovOps, id \in 1..MaxMovs :
           route_check_alone(c, o, id)
    \/ \E c \in MovClients : autorizar_movimiento(c)
    \/ \E c \in MovClients : registrar_retorno(c)
    \/ \E c \in MovClients : cancelar_movimiento(c)

MovSeqSpec == Init /\ [][MovSeqNext]_vars

\* Logins served one after the other.
AuthSeqNext ==
    \/ \E c \in Clients, u \in Usernames, p \in Passwords :
           login_read_alone(c, u, p)
    \/ \E c \in Clients : login_decide(c)
    \/ \E c \in Clients : login_respond(c)

AuthSeqSpec == Init /\ [][AuthSeqNext]_vars

\* Logins of concurrent clients: a request may be read while another is
\* between its read and its update_user.
AuthNext ==
    \/ \E c \in Clients, u \in Usernames, p \in Passwords : login_read(c, u, p)
    \/ \E c \in Clients : login_decide(c)
    \/ \E c \in Clients : login_respond(c)

AuthSpec == Init /\ [][AuthNext]_vars

\* Callers that run tasks directly with execute_task, next to producers and
\* registrations; no worker loop is involved.
ExecNext ==
    \/ \E r \in Registrations : register_task(r[1], r[2])
    \/ \E c \in Calls : enqueue_task(c.task_name, c)
    \/ \E c \in Calls : execute_task_call(c)
    \/ execute_task_returns
    \/ \E e \in HandlerErrors : execute_task_raises(e)

ExecSpec == Init /\ [][ExecNext]_vars

TypeOK ==
    /\ unfinished \in 0..MaxEnqueue
    /\ Len(task_queue) <= MaxEnqueue
    /\ numWorkers \in 0..MaxWorkers
    /\ sd \in {"idle", "join", "joined", "gather", "done"}
    /\ \A w \in Workers : pc[w] \in {"none", "get", "exec", "terminated"}
    /\ \A n \in Names : registered_tasks[n] \in Handlers \cup {NoHandler}


\* Fair scheduling: the event loop eventually runs every ready worker loop
\* and the shutdown coroutine, and every started handler comes to an end.
\* When shutdown_worker is called, and what producers do, is up to the host.
FairSpec ==
    /\ Spec
    /\ \A w \in Workers :
          /\ WF_vars(worker_get(w))
          /\ WF_vars(worker_task_done(w) \/ worker_handler_raises(w))
          /\ WF_vars(worker_cancelled_idle(w))
          /\ WF_vars(\E o \in {"cancelled", "returned", "raised"} :
                         worker_cancelled_exec(w, o))
    /\ WF_vars(shutdown_worker_cancel)
    /\ WF_vars(shutdown_worker_return)

\* ------------------------------------------------------------ vocabulary
\* the handler of invocation i ran to its end (returned or raised)
Finished(i) == status[i] \in {"returned", "raised"}
\* the handler of invocation i was started
Started(i) == status[i] \in {"running", "returned", "raised", "cancelled"}
\* shutdown_worker has called cancel() on the worker handles
CancelSignalled == sd \in {"gather", "done"}
Executing(w) == pc[w] = "exec"

\* ------------------------------------------------------------------- C1
\* C1: when shutdown_worker has returned, the handler of every invocation
\* accepted before the shutdown call has run to completion.
C1_DrainBeforeReturn ==
    sd = "done" => \A i \in snapshot : Finished(i)

\* ------------------------------------------------------------------- C2
\* C2: no worker loop has a cancellation signalled while it is between
\* dequeuing an invocation and the end of its execute_task call.
C2_CancelOnlyIdle ==
    \A w \in Workers : cancelReq[w] => ~Executing(w)

\* ------------------------------------------------------------------- C3
\* C3: every time a worker loop finishes executing an invocation and goes
\* back to dequeue, by return or by exception, the count of unfinished
\* items has dropped by exactly one.
C3_MarkDoneAlways ==
    [][ \A w \in Workers :
          (pc[w] = "exec" /\ pc'[w] = "get") => unfinished' = unfinished - 1
      ]_vars

\* ------------------------------------------------------------------- C4
\* C4: once an earlier-enqueued invocation has raised, a later invocation
\* waiting in the queue of a launched pool is eventually executed to its
\* end, unless shutdown_worker signals cancellation first.
C4_Isolation ==
    \A j \in Ids :
        (/\ status[j] = "queued"
         /\ numWorkers > 0
         /\ \E i \in 1..(j - 1) : status[i] = "raised")
        ~> (Finished(j) \/ CancelSignalled)

C4_Witness ==
    \E i \in Ids, j \in Ids :
        i < j /\ status[i] = "raised" /\ status[j] = "returned"

\* ------------------------------------------------------------------- C5
\* C5: an enqueue_task call with an unregistered name fails with the
\* unknown-task error and leaves queue and unfinished count as they were;
\* with a registered name it appends exactly one invocation with that
\* name and those arguments to the tail.
C5_Enqueue ==
    [][ (enqResult' # enqResult \/ accepted' # accepted) =>
          LET r == enqResult' IN
          IF ~IsRegistered(r.task_name)
          THEN /\ r.outcome = "ValueError"
               /\ task_queue' = task_queue
               /\ unfinished' = unfinished
          ELSE /\ r.outcome = "ok"
               /\ Len(task_queue') = Len(task_queue) + 1
               /\ SubSeq(task_queue', 1, Len(task_queue)) = task_queue
               /\ LET last == task_queue'[Len(task_queue')]
                  IN /\ last.task_name = r.task_name
                     /\ last.args = r.args
                     /\ last.kwargs = r.kwargs
               /\ unfinished' = unfinished + 1
      ]_vars

C5_Witness ==
    /\ enqResult.outcome = "ValueError"
    /\ Len(task_queue) > 0
    /\ unfinished = Len(task_queue)

\* ------------------------------------------------------------------- C6
\* C6: every invocation is dequeued at most once and its handler started
\* at most once, and no two worker loops hold the same invocation.
C6_AtMostOnce ==
    /\ \A i \in Ids : deqs[i] <= 1 /\ starts[i] <= 1
    /\ \A w1 \in Workers, w2 \in Workers :
          (w1 # w2 /\ Executing(w1) /\ Executing(w2)) => cur[w1].id # cur[w2].id

C6_Witness ==
    /\ numWorkers > 1
    /\ \E i \in Ids : status[i] = "raised" /\ starts[i] = 1 /\ deqs[i] = 1
    /\ \E w1 \in Workers, w2 \in Workers :
          w1 # w2 /\ Executing(w1) /\ pc[w2] = "get" /\ task_queue = << >>

\* ------------------------------------------------------------------- C7
\* C7: with one worker loop, handlers run one at a time in enqueue order:
\* whenever an invocation has been started, every invocation accepted
\* before it has already finished.
C7_SingleWorkerFifo ==
    numWorkers = 1 =>
        /\ \A j \in Ids : Started(j) => \A i \in 1..(j - 1) : Finished(i)
        /\ Cardinality({i \in Ids : status[i] = "running"}) <= 1

C7_Witness ==
    /\ numWorkers = 1
    /\ status[1] = "raised"
    /\ ran[1].handler = "h_double"
    /\ status[2] = "running"
    /\ ran[2].handler = "h_noop"

\* ------------------------------------------------------------------- C8
\* the handler of invocation i was invoked once, and it was the handler
\* registered for its name, with the arguments given to enqueue_task
RanExactly(i) ==
    /\ starts[i] = 1
    /\ ran[i].handler = registered_tasks[accepted[i].task_name]
    /\ ran[i].args = accepted[i].args
    /\ ran[i].kwargs = accepted[i].kwargs

\* C8: an accepted invocation waiting in the queue of a launched pool is
\* eventually run with the handler registered for its name and exactly
\* the supplied arguments, unless shutdown_worker signals cancellation.
C8_EventuallyRuns ==
    \A i \in Ids :
        (status[i] = "queued" /\ numWorkers > 0)
        ~> (RanExactly(i) \/ CancelSignalled)

C8_Witness ==
    \E i \in Ids :
        /\ Started(i)
        /\ RanExactly(i)
        /\ ran[i].handler = "h_other"
        /\ ran[i].kwargs # {}

\* ------------------------------------------------------------------- C9
\* C9: when shutdown_worker returns every launched worker loop is
\* terminated, and no worker loop takes a step after that.
C9_AllTerminated ==
    [][ /\ sd' = "done" =>
              \A w \in Workers : w <= numWorkers' => pc'[w] = "terminated"
        /\ sd = "done" => UNCHANGED << pc, cur, cancelReq, numWorkers >>
      ]_vars

C9_Witness ==
    /\ sd = "done"
    /\ numWorkers > 1
    /\ \E i \in Ids : status[i] = "returned"

\* ------------------------------------------------------------------ C10
\* C10: an invocation accepted after shutdown_worker returned sits in the
\* queue: it is never dequeued and its handler is never started.
C10_NoConsumer ==
    sd = "done" =>
        \A i \in (doneAt + 1)..Len(accepted) :
            /\ status[i] = "queued"
            /\ deqs[i] = 0
            /\ starts[i] = 0
            /\ \E k \in 1..Len(task_queue) : task_queue[k] = accepted[i]

C10_Witness ==
    /\ sd = "done"
    /\ Len(accepted) > doneAt
    /\ doneAt > 0


\* ------------------------------------------------------------------ C11
\* C11: when shutdown_worker has returned, no invocation accepted before
\* the shutdown call is still waiting in the queue, and every launched
\* worker loop has been cancelled and has ended.
C11_JoinBarrier ==
    sd = "done" =>
        /\ \A i \in snapshot : status[i] # "queued"
        /\ \A k \in 1..Len(task_queue) : task_queue[k].id \notin snapshot
        /\ \A w \in 1..numWorkers : cancelReq[w] /\ pc[w] = "terminated"

C11_Witness ==
    /\ sd = "done"
    /\ Cardinality(snapshot) > 1
    /\ \A i \in snapshot : status[i] = "returned"
    /\ task_queue = << >>

\* ------------------------------------------------------------------ C12
\* C12: until cancellation is signalled to it, every launched worker loop
\* is in its dequeue/execute cycle, whatever its handlers raised.
C12_LoopsSurvive ==
    \A w \in Workers :
        (w <= numWorkers /\ ~cancelReq[w]) => pc[w] \in {"get", "exec"}

C12_Witness ==
    /\ numWorkers > 1
    /\ \A w \in 1..numWorkers : ~cancelReq[w] /\ pc[w] = "get"
    /\ \A i \in Ids : status[i] = "raised"

\* ------------------------------------------------------------------ C19
\* C19: a worker loop that is cancelled while executing finishes the
\* invocation and marks it done before it terminates, and a terminated
\* loop stays terminated.
C19_DrainThenTerminate ==
    [][ \A w \in Workers :
          /\ (pc[w] = "exec" /\ pc'[w] = "terminated") =>
                /\ status'[cur[w].id] \in {"returned", "raised"}
                /\ unfinished' = unfinished - 1
          /\ pc[w] = "terminated" => pc'[w] = "terminated"
      ]_vars

\* ------------------------------------------------------------------ C20
\* C20: invocations are dequeued in the order they were accepted: when an
\* invocation has been dequeued, so has every invocation accepted before.
C20_StartOrder ==
    \A i \in Ids, j \in Ids : (i < j /\ deqs[j] > 0) => deqs[i] > 0

C20_Witness ==
    /\ numWorkers > 1
    /\ status[1] = "running"
    /\ status[2] = "returned"


\* ------------------------------------------------------------------ C16
\* C16: a second registration under a name overwrites the first: the
\* registry maps the name to the new handler, no other name's entry
\* changes, and every invocation of the name that was waiting in the queue
\* at the registration runs with the new handler.
C16_LastRegistrationWins ==
    /\ [](lastReg.name # "" =>
            /\ registered_tasks[lastReg.name] = lastReg.handler
            /\ \A i \in lastReg.queued :
                  (accepted[i].task_name = lastReg.name /\ Started(i))
                      => ran[i].handler = lastReg.handler)
    /\ [][ \A n \in Names :
              registered_tasks'[n] # registered_tasks[n] =>
                  /\ lastReg'.name = n
                  /\ registered_tasks'[n] = lastReg'.handler ]_vars

C16_Witness ==
    /\ lastReg.name = "noop"
    /\ registered_tasks["noop"] = "h_other"
    /\ registered_tasks["double"] = "h_double"
    /\ \E i \in lastReg.queued :
          /\ ran[i].handler = "h_other"
          /\ status[i] = "returned"
    /\ \E j \in Ids : ran[j].handler = "h_noop"


\* ------------------------------------------------------------------ C14
\* C14: an execute_task call with a name that is not in the registry ends
\* with the unknown-task ValueError, starts no handler, and changes neither
\* the registry nor the queue.
C14_UnknownTask ==
    [][ (ex.pc # "running" /\ ex' # ex
            /\ ~IsRegistered(ex'.call.task_name)) =>
          /\ ex'.pc = "raised"
          /\ ex'.outcome.kind = "raise"
          /\ ex'.outcome.value = "ValueError"
          /\ ex'.invoked = 0
          /\ ex'.handler = NoHandler
          /\ UNCHANGED << registered_tasks, task_queue, unfinished >>
      ]_vars

C14_Witness ==
    /\ ex.pc = "raised"
    /\ ex.call.task_name = "ghost"
    /\ ex.invoked = 0
    /\ task_queue # << >>
    /\ lastReg.name # ""

\* ------------------------------------------------------------------ C15
\* C15: when execute_task has ended for a registered name, its caller got
\* exactly what the handler did (the value it returned, or the exception it
\* raised), and the handler was called once; this for thread-run and for
\* awaited handlers alike.
C15_Transparent ==
    (ex.pc \in {"returned", "raised"} /\ ex.handler # NoHandler) =>
        /\ ex.invoked = 1
        /\ ex.outcome.kind = ex.did.kind
        /\ ex.outcome.value = ex.did.value
        /\ ex.pc = (IF ex.did.kind = "raise" THEN "raised" ELSE "returned")
        /\ ex.did.kind = "return" =>
              ex.did.value = HandlerResult(ex.handler, ex.call).value

C15_Witness ==
    /\ ex.pc = "raised"
    /\ ~iscoroutinefunction(ex.handler)
    /\ ex.outcome.kind = "raise"
    /\ ex.outcome.value = "KeyError"
    /\ ex.invoked = 1


\* ------------------------------------------------------------------ C13
\* C13: the host's lifespan is ordered: no worker loop exists before the
\* database check has succeeded (none ever if it failed), requests are
\* served only after start_worker has run, shutdown_worker is called only
\* after serving, and the engine is disposed only after shutdown_worker has
\* returned.
C13_LifespanOrder ==
    /\ life \in {"boot", "failed", "db_ok"} =>
          (numWorkers = 0 /\ accepted = << >>)
    /\ life = "started" => accepted = << >>
    /\ (life \in {"started", "serving"} /\ WorkersEnabled(env.enable)) =>
          numWorkers = LifespanWorkers
    /\ sd # "idle" => life \in {"stopping", "stopped"}
    /\ engine = "disposed" <=> life = "stopped"
    /\ (engine = "disposed" /\ numWorkers > 0) => sd = "done"

C13_Witness ==
    /\ engine = "disposed"
    /\ numWorkers = LifespanWorkers
    /\ sd = "done"
    /\ \E i \in Ids : status[i] = "returned"

\* ------------------------------------------------------------------ C17
\* C17: once the host has started, it runs worker loops exactly when
\* ENABLE_WORKERS is true, and then as many as NUM_WORKERS says.
C17_EnvConfigured ==
    life \in {"started", "serving"} =>
        numWorkers = (IF WorkersEnabled(env.enable) THEN env.num ELSE 0)


\* ------------------------------------------------------------------ C18
\* C18: whatever logins came before, a login is answered with a token only
\* if the user has a row, the password verifies against the stored hash and
\* the row's bloqueado is false; an unknown user or a wrong password gets
\* 401 "Credenciales incorrectas", and a blocked user with the right
\* password gets 403 "Usuario bloqueado".
C18_TokenOnlyIfAllowed ==
    \A c \in Clients :
        reqs[c].pc = "done" =>
            LET r == reqs[c]
                known == r.username \in DOMAIN usuarios
                row == usuarios[r.username]
            IN /\ r.response.code \in {200, 401, 403}
               /\ r.response.code = 200 =>
                     /\ known
                     /\ verify_password(r.password, row.contrasena)
                     /\ ~row.bloqueado
               /\ ~known => r.response = Unauthorized
               /\ (known /\ ~verify_password(r.password, row.contrasena)) =>
                     /\ r.response.code = 401
                     /\ r.response.detail = << "Credenciales incorrectas" >>
               /\ (known /\ verify_password(r.password, row.contrasena)
                         /\ row.bloqueado) =>
                     /\ r.response.code = 403
                     /\ r.response.detail[1] = "Usuario bloqueado"

C18_Witness ==
    \E c \in Clients :
        /\ reqs[c].pc = "done"
        /\ reqs[c].username = "ana"
        /\ reqs[c].password = "pw"
        /\ reqs[c].response.code = 403
        /\ usuarios["ana"].bloqueado
        /\ usuarios["ana"].intentos_fallidos >= LockThreshold


\* ------------------------------------------------------------------ C21
\* C21: every invocation waiting in the queue, and every invocation a
\* worker has taken, names a registered task; no worker ever meets the
\* unknown-task error.
C21_QueuedNamesRegistered ==
    /\ \A k \in 1..Len(task_queue) : IsRegistered(task_queue[k].task_name)
    /\ \A w \in Workers : Executing(w) => IsRegistered(cur[w].task_name)
    /\ \A i \in Ids : status[i] # "unknown"

C21_Witness ==
    /\ enqResult.outcome = "ValueError"
    /\ task_queue # << >>
    /\ \E w \in Workers : Executing(w)

\* ------------------------------------------------------------------ C27
\* C27: the queue's count of items put but not marked done equals the
\* number of invocations waiting plus the number being executed.
C27_UnfinishedCount ==
    unfinished = Len(task_queue)
                   + Cardinality({ w \in Workers : Executing(w) })

\* ------------------------------------------------------------------ C28
\* C28: with handlers that all end and fair scheduling, a shutdown_worker
\* call eventually returns.
C28_ShutdownReturns ==
    (sd # "idle") ~> (sd = "done")


\* ------------------------------------------------------------------ C23
\* C23: while a worker waits for a handler that runs on a thread, be the
\* worker cancelled or not, producers can enqueue and every other idle
\* worker can take the next queued invocation.
C23_OthersNotBlocked ==
    \A w \in Workers :
        (pc[w] \in {"exec", "exiting"}
            /\ ~iscoroutinefunction(cur[w].handler)) =>
          /\ Len(accepted) < MaxEnqueue =>
                ENABLED (\E c \in Calls : loop_enqueue(c))
          /\ \A v \in Workers \ {w} :
                (pc[v] = "get" /\ ~cancelReq[v] /\ task_queue # << >>) =>
                    ENABLED loop_get(v)


\* ------------------------------------------------------------------ C22
\* C22: a maintenance check dispatches its notifications in-line: when the
\* invocation has ended, every notification it had to send has been
\* attempted, unless it ended with the exception of a notification call.
C22_InlineDispatch ==
    \A i \in 1..Len(accepted) :
        (accepted[i].task_name \in MaintNames
            /\ status[i] \in {"returned", "raised"}) =>
          \/ maint[i].attempted = NotificationsDue
          \/ maint[i].error = "notification"


\* ------------------------------------------------------------------ C24
\* C24: cancelling a salida that is en_proceso makes the movement cancelado
\* and returns the equipment (disponible, at "Almacén principal");
\* cancelling a pendiente movement makes it cancelado and leaves the
\* equipment as it is.
C24_CancelReturnsEquipment ==
    [][ \A c \in MovClients :
          (mreq[c].pc = "checked" /\ mreq[c].op = "cancelar"
              /\ mreq'[c].pc = "idle") =>
            LET m == movs[mreq[c].id]
            IN /\ movs'[mreq[c].id].estado = "cancelado"
               /\ (m.estado = "en_proceso" /\ m.tipo = "salida") =>
                     equipo' = [estado |-> "disponible",
                                ubicacion |-> "Almacén principal"]
               /\ m.estado = "pendiente" => equipo' = equipo
      ]_vars

\* ------------------------------------------------------------------ C25
\* C25: a movement that is completado or cancelado never changes again,
\* and a movement becomes completado only by registrar_retorno on a salida
\* that is en_proceso.
C25_TerminalStates ==
    [][ \A id \in 1..Len(movs) :
          /\ movs[id].estado \in MovTerminal => movs'[id] = movs[id]
          /\ (movs[id].estado # "completado"
                 /\ movs'[id].estado = "completado") =>
                /\ movs[id].tipo = "salida"
                /\ movs[id].estado = "en_proceso"
                /\ \E c \in MovClients :
                      /\ mreq[c].pc = "checked"
                      /\ mreq[c].op = "retorno"
                      /\ mreq[c].id = id
                      /\ mreq'[c].pc = "idle"
      ]_vars

\* ------------------------------------------------------------------ C26
\* C26: the equipment has at most one salida en_proceso, and it is prestado
\* exactly when it has one.
C26_OneLoanPerEquipment ==
    LET out == { id \in 1..Len(movs) :
                   movs[id].tipo = "salida" /\ movs[id].estado = "en_proceso" }
    IN /\ Cardinality(out) <= 1
       /\ equipo.estado = "prestado" <=> out # {}


C30_NoLostUpdate ==
    [][ \A c \in Clients :
          (reqs[c].pc = "read" /\ reqs'[c].pc = "done") =>
            LET r == reqs[c]
                u == r.username
            IN /\ usuarios[u].bloqueado => usuarios'[u].bloqueado
               /\ ~verify_password(r.password, usuarios[u].contrasena) =>
                    usuarios'[u].intentos_fallidos
                       = usuarios[u].intentos_fallidos + 1
      ]_vars

====
